---- MODULE Spec2Model ----
(***************************************************************************)
(* Student-activity -> teacher-observation plugin (src/main.ts, with the   *)
(* earlier revision src/unnamed/part_000).                                 *)
(*                                                                         *)
(* Strings are sequences of UTF-16 code units, as JavaScript strings are.  *)
(* The module holds several specifications over one set of variables:      *)
(*   Spec          the conversion pipeline (commands, processConversion);  *)
(*   SpecMetrics   the NEIS text metrics applied to bounded strings;       *)
(*   SpecEstimate  the byte estimate shown by the input modal;             *)
(*   SpecParse     parseTSV applied to bounded pasted data;                *)
(*   SpecNote      the result note rendered from a bounded batch;          *)
(*   SpecSettings  one batch running while the settings tab is edited.     *)
(***************************************************************************)
EXTENDS Integers, Sequences, FiniteSets, TLC

VARIABLES
    settings,   \* StudentActivityPlugin.settings
    batch,      \* one record per command invocation (see IdleBatch)
    text,       \* SpecMetrics: the string handed to the counters
    measured,   \* SpecMetrics: what the counters returned for text
    estimate,   \* SpecEstimate: the input modal's target and byte estimate
    doc,        \* SpecParse, SpecNote: pasted data and what is made of it
    vault       \* SpecVault: the clock and the notes of the vault

vars == <<settings, batch, text, measured, estimate, doc, vault>>

(***************************************************************************)
(* Bounds of the model.                                                    *)
(***************************************************************************)
MaxBatches == 2     \* command invocations in one behaviour
MaxLen == 3         \* length of the strings handed to the counters

(***************************************************************************)
(* Code units the source names.                                            *)
(***************************************************************************)
LF == 10            \* '\n'
TAB == 9            \* '\t'
SPACE == 32         \* ' '

\* "[변환 실패: " and "]" and "알 수 없는 오류" of the failure placeholder
FailurePrefix == <<91, 48320, 54872, 32, 49892, 54056, 58, 32>>
FailureSuffix == <<93>>
UnknownErrorText == <<50508, 32, 49688, 32, 50630, 45716, 32, 50724, 47448>>

(***************************************************************************)
(* JavaScript string primitives used by the source.                        *)
(***************************************************************************)
\* WhiteSpace and LineTerminator code units removed by String.prototype.trim
IsWhiteSpace(c) ==
    \/ c \in {9, 10, 11, 12, 13, 32, 160, 5760, 8232, 8233, 8239, 8287, 12288, 65279}
    \/ c \in 8192..8202

RECURSIVE trimStart(_)
trimStart(s) ==
    IF s = <<>> THEN s
    ELSE IF IsWhiteSpace(Head(s)) THEN trimStart(Tail(s))
    ELSE s

RECURSIVE trimEnd(_)
trimEnd(s) ==
    IF s = <<>> THEN s
    ELSE IF IsWhiteSpace(s[Len(s)]) THEN trimEnd(SubSeq(s, 1, Len(s) - 1))
    ELSE s

trim(s) == trimEnd(trimStart(s))

\* s.split(sep) for a one-code-unit separator: always at least one part; the
\* k-th part lies between the (k-1)-th and the k-th occurrence of sep
split(s, sep) ==
    LET at == { i \in 1..Len(s) : s[i] = sep }
        n == Cardinality(at)
        pos(k) == IF k = 0 THEN 0
                  ELSE IF k = n + 1 THEN Len(s) + 1
                  ELSE CHOOSE i \in at : Cardinality({ j \in at : j < i }) = k - 1
    IN  [k \in 1..(n + 1) |-> SubSeq(s, pos(k - 1) + 1, pos(k) - 1)]

\* parts.join(sep)
RECURSIVE join(_, _)
join(parts, sep) ==
    IF parts = <<>> THEN <<>>
    ELSE IF Len(parts) = 1 THEN parts[1]
    ELSE parts[1] \o sep \o join(Tail(parts), sep)

\* a faulty variant of escapeLength: every code unit from 128 on written as %uXXXX
escapeLengthAsciiOnly(c) ==
    IF \/ c \in 65..90 \/ c \in 97..122 \/ c \in 48..57
       \/ c \in {64, 42, 95, 43, 45, 46, 47}
    THEN 1
    ELSE IF c < 128 THEN 3 ELSE 6

\* length of escape(char) for one code unit: the unreserved set stays as it
\* is, other code units below 256 become %XX, the rest %uXXXX
escapeLength(c) ==
    IF \/ c \in 65..90 \/ c \in 97..122 \/ c \in 48..57
       \/ c \in {64, 42, 95, 43, 45, 46, 47}
    THEN 1
    ELSE IF c < 256 THEN 3 ELSE 6

(***************************************************************************)
(* NEIS text metrics.                                                      *)
(***************************************************************************)
countChars(s) == Len(s)

\* a faulty variant of charBytes: a wide character charged like a narrow one
charBytesAllNarrow(c) == 1

\* what one iteration of the loop of countBytes (main.ts) adds for char
charBytes(c) ==
    IF c = LF THEN 1
    ELSE IF escapeLength(c) > 4 THEN 3
    ELSE 1

RECURSIVE countBytes(_)
countBytes(s) ==
    IF s = <<>> THEN 0
    ELSE charBytes(Head(s)) + countBytes(Tail(s))

\* part_000: the code-point range table
rangeTableBytes(code) ==
    IF \/ code \in 44032..55203      \* 0xac00..0xd7a3
       \/ code \in 4352..4607        \* 0x1100..0x11ff
       \/ code \in 12592..12687      \* 0x3130..0x318f
       \/ code \in 19968..40959      \* 0x4e00..0x9fff
       \/ code \in 63744..64255      \* 0xf900..0xfaff
    THEN 3
    ELSE 1

IsHighSurrogate(c) == c \in 55296..56319
IsLowSurrogate(c) == c \in 56320..57343

\* part_000: for (const char of text) walks code points, so a surrogate pair
\* is one iteration, and char.charCodeAt(0) is its first code unit
RECURSIVE countBytesRangeTable(_)
countBytesRangeTable(s) ==
    IF s = <<>> THEN 0
    ELSE IF /\ Len(s) >= 2 /\ IsHighSurrogate(s[1]) /\ IsLowSurrogate(s[2])
         THEN rangeTableBytes(s[1]) + countBytesRangeTable(SubSeq(s, 3, Len(s)))
         ELSE rangeTableBytes(s[1]) + countBytesRangeTable(Tail(s))

(***************************************************************************)
(* Data model and parser.                                                  *)
(***************************************************************************)
StudentActivity(id, name, content) ==
    [studentId |-> id, studentName |-> name, activityContent |-> content]

\* the loop of parseTSV over the lines still to read
RECURSIVE parseLines(_)
parseLines(lines) ==
    IF lines = <<>> THEN <<>>
    ELSE LET parts == split(Head(lines), TAB)
         IN  (IF Len(parts) >= 3
              THEN << StudentActivity(trim(parts[1]), trim(parts[2]),
                                      trim(join(SubSeq(parts, 3, Len(parts)), <<SPACE>>))) >>
              ELSE <<>>)
             \o parseLines(Tail(lines))

parseTSV(data) == parseLines(split(trim(data), LF))

(***************************************************************************)
(* Settings.                                                               *)
(***************************************************************************)
Providers == {"openai", "claude", "gemini", "grok"}

DEFAULT_MODELS ==
    [openai |-> "gpt-4o-mini", claude |-> "claude-sonnet-4-5-20250929",
     gemini |-> "gemini-2.5-flash", grok |-> "grok-4-1-fast"]

DEFAULT_SETTINGS ==
    [apiProvider |-> "openai", apiKey |-> "", targetCharCount |-> 500,
     outputFolder |-> "", modelId |-> "gpt-4o-mini"]

\* loadSettings: the defaults overlaid with what saveData stored earlier
LoadedSettings ==
    { DEFAULT_SETTINGS,
      [DEFAULT_SETTINGS EXCEPT !.apiProvider = "claude", !.apiKey = "sk-ant-key",
                               !.modelId = ""] }

(***************************************************************************)
(* The generation capability: callOpenAI, callClaude, callGemini, callGrok.*)
(***************************************************************************)
HTTP_OK == 200

CallFunction == [openai |-> "callOpenAI", claude |-> "callClaude",
                 gemini |-> "callGemini", grok |-> "callGrok"]

\* "OpenAI", "Claude", "Gemini", "Grok" in the messages the call functions throw
ApiLabel ==
    [callOpenAI |-> <<79, 112, 101, 110, 65, 73>>,
     callClaude |-> <<67, 108, 97, 117, 100, 101>>,
     callGemini |-> <<71, 101, 109, 105, 110, 105>>,
     callGrok   |-> <<71, 114, 111, 107>>]

\* " API 오류: "
ApiErrorInfix == <<32, 65, 80, 73, 32, 50724, 47448, 58, 32>>

\* the decimal digits of a natural number, as `${response.status}` prints it
RECURSIVE decimal(_)
decimal(n) ==
    IF n < 10 THEN <<48 + n>>
    ELSE Append(decimal(n \div 10), 48 + (n % 10))

\* the switch of processConversion: which function is called with what
generationCall(s, activity, targetCharCount) ==
    [fn |-> CallFunction[s.apiProvider],
     apiKey |-> s.apiKey,
     modelId |-> IF s.modelId # "" THEN s.modelId ELSE DEFAULT_MODELS[s.apiProvider],
     activity |-> activity,
     targetCharCount |-> targetCharCount]

\* what requestUrl can settle with
ContentResponse(raw) == [kind |-> "response", status |-> HTTP_OK, body |-> raw]
StatusResponse(status) == [kind |-> "response", status |-> status, body |-> <<>>]
RejectError(message) == [kind |-> "rejectError", status |-> 0, body |-> message]
RejectOther == [kind |-> "rejectOther", status |-> 0, body |-> <<>>]

\* how a call function settles for a settled request: returned text, a thrown
\* Error with its message, or a thrown value that is no Error
callOutcome(call, resp) ==
    IF resp.kind = "response"
    THEN IF resp.status # HTTP_OK
         THEN [ok |-> FALSE, isError |-> TRUE,
               value |-> ApiLabel[call.fn] \o ApiErrorInfix \o decimal(resp.status)]
         ELSE [ok |-> TRUE, isError |-> FALSE, value |-> trim(resp.body)]
    ELSE IF resp.kind = "rejectError"
         THEN [ok |-> FALSE, isError |-> TRUE, value |-> resp.body]
         ELSE [ok |-> FALSE, isError |-> FALSE, value |-> <<>>]

(***************************************************************************)
(* Observation records.                                                    *)
(***************************************************************************)
\* a faulty variant of successRecord: both counts taken with countChars
successRecordCharsTwice(activity, observation) ==
    [studentId |-> activity.studentId, studentName |-> activity.studentName,
     activityContent |-> activity.activityContent, observation |-> observation,
     charCount |-> countChars(observation), byteCount |-> countChars(observation)]

\* records.push({...}) of the try block
successRecord(activity, observation) ==
    [studentId |-> activity.studentId, studentName |-> activity.studentName,
     activityContent |-> activity.activityContent, observation |-> observation,
     charCount |-> countChars(observation), byteCount |-> countBytes(observation)]

\* `[변환 실패: ${error instanceof Error ? error.message : '알 수 없는 오류'}]`
failureText(outcome) ==
    FailurePrefix \o (IF outcome.isError THEN outcome.value ELSE UnknownErrorText)
                  \o FailureSuffix

\* a faulty variant of failureRecord: the placeholder is measured like a real text
failureRecordMeasured(activity, outcome) ==
    successRecord(activity, failureText(outcome))

\* records.push({...}) of the catch block
failureRecord(activity, outcome) ==
    [studentId |-> activity.studentId, studentName |-> activity.studentName,
     activityContent |-> activity.activityContent, observation |-> failureText(outcome),
     charCount |-> 0, byteCount |-> 0]

\* a faulty variant of push: the new record is put in front
pushFront(records, r) == <<r>> \o records

\* Array.prototype.push
push(records, r) == Append(records, r)

\* a faulty variant of needsDelay: a wait after the last record too
needsDelayAlways(i, n) == i < n

\* if (i < activities.length - 1)
needsDelay(i, n) == i < n - 1

\* a faulty variant of nextIndex: the same record again
nextIndexRetry(i) == i

\* i++ of the for loop
nextIndex(i) == i + 1

(***************************************************************************)
(* Progress modal.                                                         *)
(***************************************************************************)
NewProgressModal ==
    [open |-> FALSE, studentListContainer |-> FALSE, currentIndex |-> 0,
     totalCount |-> 0, previousStudentName |-> <<>>, completed |-> <<>>,
     status |-> "waiting"]

\* progressModal.open(): onOpen builds the elements
openProgress(m) == [m EXCEPT !.open = TRUE, !.studentListContainer = TRUE]

updateProgress(m, current, total, studentName) ==
    [m EXCEPT !.currentIndex = current,
              !.totalCount = total,
              !.status = IF current = total THEN "complete" ELSE "remaining",
              !.completed = IF m.previousStudentName # <<>> /\ m.studentListContainer
                            THEN Append(@, m.previousStudentName) ELSE @,
              !.previousStudentName = studentName]

markLastStudentComplete(m) ==
    [m EXCEPT !.completed = IF m.previousStudentName # <<>> /\ m.studentListContainer
                            THEN Append(@, m.previousStudentName) ELSE @]

closeProgress(m) == [m EXCEPT !.open = FALSE]

(***************************************************************************)
(* One command invocation (a batch once processConversion runs).           *)
(*   pc: idle       not invoked yet                                        *)
(*       refused    the command returned after a notice                    *)
(*       input      InputModal is open                                     *)
(*       cancelled  InputModal was cancelled                               *)
(*       returned   processConversion returned: nothing to convert         *)
(*       calling    await call...(): the request is in flight              *)
(*       delay      await of the 500 ms timer                              *)
(*       writing    await this.createResultNote(records)                   *)
(*       done       processConversion resolved                             *)
(*       failed     processConversion rejected                             *)
(***************************************************************************)
Batches == 1..MaxBatches

NoNotice == [kind |-> "none", succeeded |-> 0, failed |-> 0]
Notice(kind) == [kind |-> kind, succeeded |-> 0, failed |-> 0]

IdleBatch ==
    [pc |-> "idle", data |-> <<>>, targetCharCount |-> 0, activities |-> <<>>,
     i |-> 0, records |-> <<>>, errorCount |-> 0,
     calls |-> <<>>,        \* the generation calls made, in order
     outcomes |-> <<>>,     \* how each of them settled
     waits |-> 0,           \* 500 ms timers set
     progress |-> NewProgressModal,
     noteRecords |-> <<>>,  \* the argument of createResultNote
     inputNotice |-> "none", \* the Notice shown by the open InputModal
     notice |-> NoNotice]   \* the Notice of the command or of processConversion

\* the body of the for loop up to the await of the generation call
startIteration(bt, s) ==
    LET activity == bt.activities[bt.i + 1]
    IN  [bt EXCEPT !.progress = updateProgress(@, bt.i + 1, Len(bt.activities),
                                               activity.studentName),
                   !.calls = Append(@, generationCall(s, activity, bt.targetCharCount)),
                   !.pc = "calling"]

\* a faulty variant of finishLoop: the progress modal is left open
finishLoopModalOpen(bt) ==
    [bt EXCEPT !.progress = markLastStudentComplete(@),
               !.noteRecords = bt.records,
               !.pc = "writing"]

\* after the loop, up to the await of createResultNote
finishLoop(bt) ==
    [bt EXCEPT !.progress = closeProgress(markLastStudentComplete(@)),
               !.noteRecords = bt.records,
               !.pc = "writing"]

\* the test i < activities.length of the for loop
loopTest(bt, s) ==
    IF bt.i < Len(bt.activities) THEN startIteration(bt, s) ELSE finishLoop(bt)

\* a faulty variant of processConversion: the empty batch is not turned away
processConversionUnguarded(bt, data, targetCharCount, s) ==
    loopTest([bt EXCEPT !.data = data,
                        !.targetCharCount = targetCharCount,
                        !.activities = parseTSV(data),
                        !.progress = openProgress(@),
                        !.i = 0], s)

\* processConversion from its call to its first await or return
processConversion(bt, data, targetCharCount, s) ==
    LET activities == parseTSV(data)
    IN  IF Len(activities) = 0
        THEN [bt EXCEPT !.data = data, !.targetCharCount = targetCharCount,
                        !.notice = Notice("noData"), !.pc = "returned"]
        ELSE loopTest([bt EXCEPT !.data = data,
                                 !.targetCharCount = targetCharCount,
                                 !.activities = activities,
                                 !.progress = openProgress(@),
                                 !.i = 0], s)

\* the end of an iteration, after the record was pushed
endIteration(bt, s) ==
    IF needsDelay(bt.i, Len(bt.activities))
    THEN [bt EXCEPT !.waits = @ + 1, !.pc = "delay"]
    ELSE loopTest([bt EXCEPT !.i = nextIndex(@)], s)

(***************************************************************************)
(* Inputs.                                                                 *)
(***************************************************************************)
\* "1", "2", "A", "김", "x", "y", "z"
Line(id, name, content) == id \o <<TAB>> \o name \o <<TAB>> \o content

DataInputs ==
    { <<SPACE, LF>>,                                       \* blank
      <<49, TAB, 65>>,                                     \* one line, two fields
      Line(<<49>>, <<44608>>, <<120>>),                    \* one row
      Line(<<49>>, <<65>>, <<120>>) \o <<LF, LF>>          \* two rows around an
        \o Line(<<50>>, <<44608>>, <<121, TAB, 122>>) \o <<LF>> } \* empty line

\* the response body " A\n가\n"
RawContents == { <<SPACE, 65, LF, 44032, LF>> }

\* what requestUrl settles with here: a 200 with a body, or a 204, for which
\* the call functions throw their Error (a rejection of requestUrl itself
\* reaches the same catch block, see callOutcome)
Responses ==
    { ContentResponse(raw) : raw \in RawContents } \cup { StatusResponse(204) }

(***************************************************************************)
(* Actions of the pipeline.                                                *)
(***************************************************************************)
\* invocations are numbered in the order they happen
IsNextInvocation(b) ==
    /\ batch[b].pc = "idle"
    /\ \A c \in Batches : c < b => batch[c].pc # "idle"

\* openConversionModal: the modal command and the file-menu item
OpenConversionModal(b) ==
    /\ IsNextInvocation(b)
    /\ batch' = [batch EXCEPT ![b] =
                    IF settings.apiKey = ""
                    THEN [@ EXCEPT !.notice = Notice("apiKeyMissing"), !.pc = "refused"]
                    ELSE [@ EXCEPT !.pc = "input"]]
    /\ UNCHANGED <<settings, text, measured, estimate, doc, vault>>

\* the click handler of the submit button of InputModal
InputModalSubmit(b, data) ==
    /\ batch[b].pc = "input"
    /\ batch' = [batch EXCEPT ![b] =
                    IF trim(data) = <<>>
                    THEN [@ EXCEPT !.inputNotice = "enterData"]
                    ELSE IF Len(parseTSV(data)) = 0
                    THEN [@ EXCEPT !.inputNotice = "noValidData"]
                    ELSE processConversion([@ EXCEPT !.inputNotice = "none"], data,
                                           settings.targetCharCount, settings)]
    /\ UNCHANGED <<settings, text, measured, estimate, doc, vault>>

\* the click handler of the cancel button of InputModal
InputModalCancel(b) ==
    /\ batch[b].pc = "input"
    /\ batch' = [batch EXCEPT ![b].pc = "cancelled", ![b].inputNotice = "none"]
    /\ UNCHANGED <<settings, text, measured, estimate, doc, vault>>

\* the editorCallback of convert-from-selection
ConvertFromSelection(b, selection) ==
    /\ IsNextInvocation(b)
    /\ batch' = [batch EXCEPT ![b] =
                    IF trim(selection) = <<>>
                    THEN [@ EXCEPT !.notice = Notice("selectText"), !.pc = "refused"]
                    ELSE processConversion(@, selection, settings.targetCharCount, settings)]
    /\ UNCHANGED <<settings, text, measured, estimate, doc, vault>>

\* the awaited call returns: the try block goes on, then the iteration ends
GenerationSucceeds(b, resp) ==
    /\ batch[b].pc = "calling"
    /\ LET bt == batch[b]
           outcome == callOutcome(bt.calls[Len(bt.calls)], resp)
           activity == bt.activities[bt.i + 1]
       IN  /\ outcome.ok
           /\ batch' = [batch EXCEPT ![b] =
                 endIteration([bt EXCEPT !.outcomes = Append(@, outcome),
                                         !.records = push(@, successRecord(activity, outcome.value))],
                              settings)]
    /\ UNCHANGED <<settings, text, measured, estimate, doc, vault>>

\* a faulty variant of GenerationFails: no catch block, the rejection propagates
GenerationFailsAborts(b, resp) ==
    /\ batch[b].pc = "calling"
    /\ LET bt == batch[b]
           outcome == callOutcome(bt.calls[Len(bt.calls)], resp)
       IN  /\ ~outcome.ok
           /\ batch' = [batch EXCEPT ![b] =
                 [bt EXCEPT !.outcomes = Append(@, outcome), !.pc = "failed"]]
    /\ UNCHANGED <<settings, text, measured, estimate, doc, vault>>

\* the awaited call throws: the catch block, then the iteration ends
GenerationFails(b, resp) ==
    /\ batch[b].pc = "calling"
    /\ LET bt == batch[b]
           outcome == callOutcome(bt.calls[Len(bt.calls)], resp)
           activity == bt.activities[bt.i + 1]
       IN  /\ ~outcome.ok
           /\ batch' = [batch EXCEPT ![b] =
                 endIteration([bt EXCEPT !.outcomes = Append(@, outcome),
                                         !.errorCount = @ + 1,
                                         !.records = push(@, failureRecord(activity, outcome))],
                              settings)]
    /\ UNCHANGED <<settings, text, measured, estimate, doc, vault>>

\* the 500 ms timer fires: i++, the loop test, the next iteration
DelayElapsed(b) ==
    /\ batch[b].pc = "delay"
    /\ batch' = [batch EXCEPT ![b] = loopTest([@ EXCEPT !.i = nextIndex(@)], settings)]
    /\ UNCHANGED <<settings, text, measured, estimate, doc, vault>>

\* after the await of createResultNote: the completion Notice
noteCreated(bt) ==
    [bt EXCEPT !.notice =
                   IF bt.errorCount > 0
                   THEN [kind |-> "doneWithFailures",
                         succeeded |-> Len(bt.records) - bt.errorCount,
                         failed |-> bt.errorCount]
                   ELSE [kind |-> "doneAll",
                         succeeded |-> Len(bt.records), failed |-> 0],
               !.pc = "done"]

\* createResultNote resolves: the completion Notice
ResultNoteCreated(b) ==
    /\ batch[b].pc = "writing"
    /\ batch' = [batch EXCEPT ![b] = noteCreated(@)]
    /\ UNCHANGED <<settings, text, measured, estimate, doc, vault>>

\* a faulty variant of ResultNoteFails: the completion Notice is shown all the same
ResultNoteFailsNoticed(b) ==
    /\ batch[b].pc = "writing"
    /\ batch' = [batch EXCEPT ![b] =
                    [@ EXCEPT !.notice = [kind |-> "doneAll",
                                          succeeded |-> Len(batch[b].records),
                                          failed |-> 0],
                              !.pc = "failed"]]
    /\ UNCHANGED <<settings, text, measured, estimate, doc, vault>>

\* createResultNote rejects (createFolder or create throws): nothing catches it
ResultNoteFails(b) ==
    /\ batch[b].pc = "writing"
    /\ batch' = [batch EXCEPT ![b].pc = "failed"]
    /\ UNCHANGED <<settings, text, measured, estimate, doc, vault>>

NotMeasured == [done |-> FALSE, chars |-> 0, bytes |-> 0, bytesRangeTable |-> 0]

\* the input modal is not open
NoEstimate == [open |-> FALSE, targetCharCount |-> 0, bytes |-> 0]

\* nothing has been pasted
NoDoc == [stage |-> "none"]

\* the vault before any note of the plugin: the clock in seconds, the
\* files created with the batch that created each
EmptyVault == [now |-> 0, files |-> {}]

Init ==
    /\ settings \in LoadedSettings
    /\ batch = [b \in Batches |-> IdleBatch]
    /\ text = <<>>
    /\ measured = NotMeasured
    /\ estimate = NoEstimate
    /\ doc = NoDoc
    /\ vault = EmptyVault

Next ==
    \/ \E b \in Batches : OpenConversionModal(b)
    \/ \E b \in Batches, data \in DataInputs : InputModalSubmit(b, data)
    \/ \E b \in Batches : InputModalCancel(b)
    \/ \E b \in Batches, selection \in DataInputs : ConvertFromSelection(b, selection)
    \/ \E b \in Batches, resp \in Responses : GenerationSucceeds(b, resp)
    \/ \E b \in Batches, resp \in Responses : GenerationFails(b, resp)
    \/ \E b \in Batches : DelayElapsed(b)
    \/ \E b \in Batches : ResultNoteCreated(b)
    \/ \E b \in Batches : ResultNoteFails(b)

Spec == Init /\ [][Next]_vars

(***************************************************************************)
(* The text metrics on their own: a bounded string is measured by          *)
(* countChars and by both versions of countBytes.                          *)
(***************************************************************************)
\* '\n', '\t', ' ', 'A', 'é', '가', and the two halves of U+1F600
Alphabet == {LF, TAB, SPACE, 65, 233, 44032, 55357, 56832}

Texts == UNION { [1..n -> Alphabet] : n \in 0..MaxLen }

MeasureText ==
    /\ ~measured.done
    /\ measured' = [done |-> TRUE,
                    chars |-> countChars(text),
                    bytes |-> countBytes(text),
                    bytesRangeTable |-> countBytesRangeTable(text)]
    /\ UNCHANGED <<settings, batch, text, estimate, doc, vault>>

InitMetrics ==
    /\ settings = DEFAULT_SETTINGS
    /\ batch = [b \in Batches |-> IdleBatch]
    /\ text \in Texts
    /\ measured = NotMeasured
    /\ estimate = NoEstimate
    /\ doc = NoDoc
    /\ vault = EmptyVault

NextMetrics == MeasureText

SpecMetrics == InitMetrics /\ [][NextMetrics]_vars

(***************************************************************************)
(* Properties of the pipeline (checked under Spec).                        *)
(***************************************************************************)
\* processConversion has left its loop
Finished(bt) == bt.pc \in {"writing", "done", "failed"}

\* the records parsed from the input of a batch
Parsed(bt) == parseTSV(bt.data)

SameStudent(r, a) ==
    /\ r.studentId = a.studentId
    /\ r.studentName = a.studentName
    /\ r.activityContent = a.activityContent

\* msg occurs in obs
Embeds(obs, msg) ==
    \E k \in 0..(Len(obs) - Len(msg)) : SubSeq(obs, k + 1, k + Len(msg)) = msg

\* C1: whatever calls succeeded or failed, the k-th record pushed carries the
\* studentId, studentName and activityContent of the k-th parsed input
\* record, and once the loop has ended createResultNote was handed exactly
\* one record per parsed input record, in input order.
C1_OrderPreserved ==
    \A b \in Batches :
        LET bt == batch[b]
            parsed == Parsed(bt)
        IN  /\ Len(bt.records) <= Len(parsed)
            /\ \A k \in 1..Len(bt.records) : SameStudent(bt.records[k], parsed[k])
            /\ Finished(bt) =>
                  /\ Len(bt.noteRecords) = Len(parsed)
                  /\ \A k \in 1..Len(bt.noteRecords) :
                        SameStudent(bt.noteRecords[k], parsed[k])

\* C1 witness: a finished batch of two records whose first call failed and
\* whose second succeeded
C1_Witness ==
    \E b \in Batches :
        /\ Finished(batch[b])
        /\ Len(batch[b].noteRecords) = 2
        /\ ~batch[b].outcomes[1].ok
        /\ batch[b].outcomes[2].ok

\* the step in which the generation call of batch b throws
FailureStep(b) ==
    /\ batch[b].pc = "calling"
    /\ Len(batch'[b].outcomes) = Len(batch[b].outcomes) + 1
    /\ ~batch'[b].outcomes[Len(batch'[b].outcomes)].ok

\* C2: a step in which the generation call throws appends exactly one
\* record for the current input record, with charCount = 0 and byteCount = 0
\* and an observation that embeds the message of the thrown Error, adds
\* exactly 1 to errorCount and does not reject processConversion; when the
\* record is not the last one the batch waits, and the step that ends the
\* wait starts the generation call of the next record.
C2_FailureIsRecorded ==
    [][\A b \in Batches :
          LET bt == batch[b]
              nx == batch'[b]
              parsed == Parsed(bt)
          IN  /\ FailureStep(b) =>
                    LET o == nx.outcomes[Len(nx.outcomes)]
                        r == nx.records[Len(nx.records)]
                    IN  /\ Len(nx.records) = Len(bt.records) + 1
                        /\ SubSeq(nx.records, 1, Len(bt.records)) = bt.records
                        /\ SameStudent(r, parsed[bt.i + 1])
                        /\ o.isError => Embeds(r.observation, o.value)
                        /\ r.charCount = 0
                        /\ r.byteCount = 0
                        /\ nx.errorCount = bt.errorCount + 1
                        /\ nx.pc # "failed"
                        /\ nx.pc = IF bt.i + 1 < Len(parsed) THEN "delay" ELSE "writing"
              /\ (bt.pc = "delay" /\ nx # bt) =>
                    /\ nx.pc = "calling"
                    /\ nx.records = bt.records
                    /\ Len(nx.calls) = Len(bt.calls) + 1
                    /\ nx.calls[Len(nx.calls)].activity = parsed[Len(bt.records) + 1]
      ]_vars

\* C2 witness: the first call threw an Error and the call of the second
\* record has been started
C2_Witness ==
    \E b \in Batches :
        /\ Len(batch[b].outcomes) >= 1
        /\ ~batch[b].outcomes[1].ok
        /\ batch[b].outcomes[1].isError
        /\ batch[b].errorCount >= 1
        /\ Len(batch[b].calls) = 2

AllFailed(bt) ==
    /\ Len(bt.outcomes) > 0
    /\ \A k \in 1..Len(bt.outcomes) : ~bt.outcomes[k].ok
    /\ Len(bt.outcomes) = Len(Parsed(bt))

\* C3: when every generation call of a batch of N records has failed, the
\* batch holds N records, all with charCount = 0 and byteCount = 0, the
\* error count is N, and processConversion has gone on to createResultNote
\* with those N records (it is rejected only if writing the note is).
C3_AllFailedStillRenders ==
    \A b \in Batches :
        LET bt == batch[b]
            n == Len(bt.outcomes)
        IN  AllFailed(bt) =>
              /\ Len(bt.records) = n
              /\ \A k \in 1..Len(bt.records) :
                    bt.records[k].charCount = 0 /\ bt.records[k].byteCount = 0
              /\ bt.errorCount = n
              /\ Finished(bt)
              /\ bt.noteRecords = bt.records
              /\ bt.pc = "done" =>
                    bt.notice = [kind |-> "doneWithFailures", succeeded |-> 0,
                                 failed |-> n]

\* C3 witness: a batch of two records, both calls failed, completed
C3_Witness ==
    \E b \in Batches :
        /\ AllFailed(batch[b])
        /\ Len(batch[b].records) = 2
        /\ batch[b].pc = "done"

\* C4: the generation calls of a batch are made for the parsed records in
\* input order, one call per record: no record is called twice (no retry,
\* also after a failure), none is skipped, and a batch that has left its
\* loop has made exactly N calls.
C4_OneCallPerRecord ==
    \A b \in Batches :
        LET bt == batch[b]
            parsed == Parsed(bt)
        IN  /\ Len(bt.calls) <= Len(parsed)
            /\ \A k \in 1..Len(bt.calls) : bt.calls[k].activity = parsed[k]
            /\ Len(bt.calls) = Len(bt.outcomes) + (IF bt.pc = "calling" THEN 1 ELSE 0)
            /\ Finished(bt) => Len(bt.calls) = Len(parsed)

\* C4 witness: a completed batch of two records whose first call failed
C4_Witness ==
    \E b \in Batches :
        /\ batch[b].pc = "done"
        /\ Len(batch[b].calls) = 2
        /\ ~batch[b].outcomes[1].ok

\* C5: the 500 ms timer is set once after every record but the last: when
\* call k is in flight k-1 waits have happened, during a wait as many as
\* records were processed, and a batch of N records that has left its loop
\* has waited N-1 times (a batch of one record: never).
C5_WaitsBetweenRecords ==
    \A b \in Batches :
        LET bt == batch[b]
        IN  /\ bt.pc = "calling" => bt.waits = Len(bt.calls) - 1
            /\ bt.pc = "delay" =>
                  /\ bt.waits = Len(bt.records)
                  /\ Len(bt.records) < Len(Parsed(bt))
            /\ Finished(bt) => bt.waits = Len(Parsed(bt)) - 1

\* C5 witness: a finished batch of one record that never waited, and a
\* finished batch of two records, the first of them failed, that waited once
C5_Witness ==
    \E b, c \in Batches :
        /\ Finished(batch[b]) /\ Len(batch[b].records) = 1 /\ batch[b].waits = 0
        /\ Finished(batch[c]) /\ Len(batch[c].records) = 2 /\ batch[c].waits = 1
        /\ ~batch[c].outcomes[1].ok

\* C6 (as claimed): records are processed one after the other, the call for
\* the next record starts only when the record of the previous one is
\* appended, and at any moment at most one generation call is in flight.
C6_AtMostOneCallInFlight ==
    /\ \A b \in Batches : Len(batch[b].calls) <= Len(batch[b].records) + 1
    /\ Cardinality({b \in Batches : batch[b].pc = "calling"}) <= 1

\* C7 (as claimed): every record has charCount = countChars(observation)
\* and byteCount = countBytes(observation).
C7_CountsAlwaysRecomputed ==
    \A b \in Batches : \A k \in 1..Len(batch[b].records) :
        LET r == batch[b].records[k]
        IN  /\ r.charCount = countChars(r.observation)
            /\ r.byteCount = countBytes(r.observation)

\* C7 (amended): the record of a call that returned has the returned text
\* as observation, charCount = countChars(observation) and byteCount =
\* countBytes(observation); the record of a call that failed has charCount
\* = 0 and byteCount = 0 although its observation, the placeholder, is not
\* empty.
C7_CountsRecomputedOnSuccess ==
    \A b \in Batches : \A k \in 1..Len(batch[b].records) :
        LET r == batch[b].records[k]
            o == batch[b].outcomes[k]
        IN  IF o.ok
            THEN /\ r.observation = o.value
                 /\ r.charCount = countChars(r.observation)
                 /\ r.byteCount = countBytes(r.observation)
            ELSE /\ r.charCount = 0
                 /\ r.byteCount = 0
                 /\ countChars(r.observation) > 0

\* C7 witness: a batch with a record of a returned text with wide
\* characters, and a failure placeholder
C7_Witness ==
    \E b \in Batches : \E k, l \in 1..Len(batch[b].records) :
        /\ batch[b].outcomes[k].ok
        /\ batch[b].records[k].byteCount > batch[b].records[k].charCount
        /\ ~batch[b].outcomes[l].ok

(***************************************************************************)
(* Properties of the text metrics (checked under SpecMetrics).             *)
(***************************************************************************)
Positions(P(_)) == {i \in 1..Len(text) : P(text[i])}

IsWideUnit(c) == c # LF /\ escapeLength(c) > 4
IsNarrowUnit(c) == c = LF \/ escapeLength(c) <= 4
IsPrintableAscii(c) == c \in 32..126
IsHangulSyllable(c) == c \in 44032..55203

\* C8 (as claimed): countBytes(text) >= countChars(text) for every string,
\* for the countBytes of main.ts and for the countBytes of part_000.
C8_BytesAtLeastChars ==
    measured.done =>
        /\ measured.bytes >= measured.chars
        /\ measured.bytesRangeTable >= measured.chars

\* C9: for a string of n wide code units (escape form longer than 4) and m
\* narrow or newline code units countBytes is 3n + m and countChars is
\* n + m; an ASCII-only string has as many bytes as characters, a
\* Hangul-syllable-only string three times as many, a newline is 1 and 1.
C9_ThreeNPlusM ==
    measured.done =>
        LET n == Cardinality(Positions(IsWideUnit))
            m == Cardinality(Positions(IsNarrowUnit))
        IN  /\ measured.bytes = 3 * n + m
            /\ measured.chars = n + m
            /\ (\A i \in 1..Len(text) : IsPrintableAscii(text[i])) =>
                  measured.bytes = measured.chars
            /\ (\A i \in 1..Len(text) : IsHangulSyllable(text[i])) =>
                  measured.bytes = 3 * measured.chars
            /\ text = <<LF>> => (measured.chars = 1 /\ measured.bytes = 1)

\* C9 witness: "A\n가" was measured
C9_Witness ==
    /\ measured.done
    /\ text = <<65, LF, 44032>>
    /\ measured.bytes = 5

IsOutsidePrintableAscii(c) == c # LF /\ ~IsPrintableAscii(c)
IsPrintableAsciiOrNewline(c) == c = LF \/ IsPrintableAscii(c)

\* C10 (as claimed): every non-newline character outside the printable
\* ASCII range costs 3 bytes, every printable ASCII character and newline 1.
C10_WideOutsidePrintableAscii ==
    measured.done =>
        measured.bytes = 3 * Cardinality(Positions(IsOutsidePrintableAscii))
                         + Cardinality(Positions(IsPrintableAsciiOrNewline))

IsFrom256(c) == c >= 256
IsBelow256(c) == c < 256

\* C10 (amended): countBytes charges 3 bytes to exactly the UTF-16 code
\* units from 0x100 on and 1 byte to every code unit below 0x100: printable
\* ASCII and newline, and also control characters such as tab and the
\* Latin-1 characters 0x80..0xFF, which are multi-byte in UTF-8.
C10_WideFrom256 ==
    measured.done =>
        measured.bytes = 3 * Cardinality(Positions(IsFrom256))
                         + Cardinality(Positions(IsBelow256))

\* C10 witness: a measured string with a tab, an 'é' and a wide code unit
C10_Witness ==
    /\ measured.done
    /\ \E i, j, k \in 1..Len(text) : text[i] = TAB /\ text[j] = 233 /\ text[k] >= 256

(***************************************************************************)
(* The byte estimate of the input modal (checked under SpecEstimate).      *)
(*                                                                         *)
(* estimateBytes computes in IEEE-754 doubles: 0.8 and 0.2 are not exact,  *)
(* and each product and the sum are rounded.  The model computes in        *)
(* thousandths and lets the sum handed to Math.round be off by any amount  *)
(* up to FloatSlack thousandths, far more than a double can be off for a   *)
(* target of this size.                                                    *)
(***************************************************************************)
FloatSlack == 1         \* thousandths the floating-point sum may be off by
MAX_TARGET == 2000      \* inputEl.max of the target character count

FloatErrors == (0 - FloatSlack)..FloatSlack

\* a faulty variant of mathRound: truncates instead of rounding
mathRoundTruncating(milli) == milli \div 1000

\* Math.round of a value given in thousandths: floor(x + 0.5)
mathRound(milli) == (milli + 500) \div 1000

\* err is the floating-point error of the sum, in thousandths
estimateBytes(charCount, err) ==
    mathRound(charCount * 800 * 3 + charCount * 200 * 1 + err)

\* InputModal constructor and onOpen: the target comes from the settings
InputModalOpen(err) ==
    /\ ~estimate.open
    /\ estimate' = [open |-> TRUE,
                    targetCharCount |-> settings.targetCharCount,
                    bytes |-> estimateBytes(settings.targetCharCount, err)]
    /\ UNCHANGED <<settings, batch, text, measured, doc, vault>>

\* onChange of the target field: parseInt gave num
TargetCharCountChanged(num, err) ==
    /\ estimate.open
    /\ num > 0
    /\ estimate' = [estimate EXCEPT !.targetCharCount = num,
                                    !.bytes = estimateBytes(num, err)]
    /\ UNCHANGED <<settings, batch, text, measured, doc, vault>>

InitEstimate ==
    /\ settings = DEFAULT_SETTINGS
    /\ batch = [b \in Batches |-> IdleBatch]
    /\ text = <<>>
    /\ measured = NotMeasured
    /\ estimate = NoEstimate
    /\ doc = NoDoc
    /\ vault = EmptyVault

\* what one edit of the number field can turn the shown value t into: a
\* digit typed at the end, the last digit deleted, or one step of the
\* spinner, within the field's maximum
FieldEdits(t) ==
    { n \in {10 * t + d : d \in 0..9} \cup {t \div 10, t - 1, t + 1} :
        n <= MAX_TARGET }

NextEstimate ==
    \/ \E err \in FloatErrors : InputModalOpen(err)
    \/ \E num \in FieldEdits(estimate.targetCharCount), err \in FloatErrors :
          TargetCharCountChanged(num, err)

SpecEstimate == InitEstimate /\ [][NextEstimate]_vars

\* C11: the estimate shown for a positive target c is round(2.6 * c), the
\* integer nearest to 2.6 * c (within one half of it), and it is 1300 for
\* the target 500.
C11_EstimateIsNearestInteger ==
    estimate.open =>
        LET c == estimate.targetCharCount
            b == estimate.bytes
        IN  /\ b = (26 * c + 5) \div 10
            /\ 10 * b - 26 * c \in (0 - 4)..4
            /\ c = 500 => b = 1300

\* a target whose exact estimate is not whole: 2.6 * 1999 = 5197.4
C11_Witness ==
    /\ estimate.open
    /\ estimate.targetCharCount = 1999
    /\ estimate.bytes = 5197

(***************************************************************************)
(* parseTSV on its own (SpecParse): bounded pasted data is parsed.         *)
(***************************************************************************)
MaxLines == 3           \* lines of the pasted data

\* the lines pasted data is made of: blank, two fields, three fields, an
\* empty first field (with and without a fourth field), an empty last
\* field, padded fields with a fourth field, an empty field in the middle
\* of the content ('1' = 49, 'A' = 65, 'x' = 120, 'y' = 121)
LineShapes ==
    { <<>>,
      <<49, TAB, 65>>,
      <<49, TAB, 65, TAB, 120>>,
      <<TAB, 65, TAB, 120>>,
      <<TAB, 65, TAB, 120, TAB, 121>>,
      <<49, TAB, 65, TAB>>,
      <<SPACE, 49, SPACE, TAB, SPACE, 65, TAB, 120, TAB, 121, SPACE>>,
      <<49, TAB, 65, TAB, 120, TAB, TAB, 121>> }

PastedData ==
    { join(ls, <<LF>>) : ls \in UNION { [1..n -> LineShapes] : n \in 0..MaxLines } }

\* InputModal.updatePreview / processConversion hand the data to parseTSV
ParseData ==
    /\ doc.stage = "pasted"
    /\ doc' = [stage |-> "parsed", data |-> doc.data,
               activities |-> parseTSV(doc.data)]
    /\ UNCHANGED <<settings, batch, text, measured, estimate, vault>>

InitParse ==
    /\ settings = DEFAULT_SETTINGS
    /\ batch = [b \in Batches |-> IdleBatch]
    /\ text = <<>>
    /\ measured = NotMeasured
    /\ estimate = NoEstimate
    /\ doc \in { [stage |-> "pasted", data |-> d] : d \in PastedData }
    /\ vault = EmptyVault

NextParse == ParseData

SpecParse == InitParse /\ [][NextParse]_vars

\* the lines of the input as pasted, and the tab-separated fields of a line
InputLines(data) == split(data, LF)
Fields(line) == split(line, TAB)
HasThreeFields(line) == Len(Fields(line)) >= 3

\* C12: parseTSV returns, in input order, exactly one record for each input
\* line with at least three tab-separated fields, its studentId the first
\* field trimmed and its studentName the second field trimmed; the other
\* lines are dropped and change nothing.
C12_OneRecordPerAcceptedLine ==
    doc.stage = "parsed" =>
        LET accepted == SelectSeq(InputLines(doc.data), HasThreeFields)
        IN  /\ Len(doc.activities) = Len(accepted)
            /\ \A k \in 1..Len(accepted) :
                  k <= Len(doc.activities) =>
                     /\ doc.activities[k].studentId = trim(Fields(accepted[k])[1])
                     /\ doc.activities[k].studentName = trim(Fields(accepted[k])[2])

\* C13: for every accepted line, activityContent is the fields from the
\* third onward joined with single spaces (one space for each tab between
\* them) and then trimmed, so that no field content is lost.
C13_ContentIsRestOfLine ==
    doc.stage = "parsed" =>
        LET accepted == SelectSeq(InputLines(doc.data), HasThreeFields)
        IN  Len(doc.activities) = Len(accepted) =>
                \A k \in 1..Len(accepted) :
                    LET fields == Fields(accepted[k])
                    IN  doc.activities[k].activityContent =
                            trim(join(SubSeq(fields, 3, Len(fields)), <<SPACE>>))

(***************************************************************************)
(* Further properties of the pipeline (checked under Spec).                *)
(***************************************************************************)
\* processConversion was called for this invocation
Entered(bt) == bt.pc \notin {"idle", "input", "refused", "cancelled"}

\* C14: empty input, and input without a line of at least three fields,
\* parses to the empty sequence; processConversion then notifies the user
\* and returns: the progress modal is never opened, no generation call is
\* made and no result note is created (nor are they when the input modal
\* turns the data away before processConversion is called).
C14_EmptyBatchNeverStarts ==
    /\ parseTSV(<<>>) = <<>>
    /\ \A b \in Batches :
          LET bt == batch[b]
          IN  /\ ~Entered(bt) =>
                      /\ bt.progress = NewProgressModal
                      /\ bt.calls = <<>>
                      /\ bt.noteRecords = <<>>
              /\ Entered(bt) =>
                /\ SelectSeq(InputLines(bt.data), HasThreeFields) = <<>>
                      => parseTSV(bt.data) = <<>>
                /\ parseTSV(bt.data) = <<>> =>
                      /\ bt.pc = "returned"
                      /\ bt.notice = Notice("noData")
                      /\ bt.progress = NewProgressModal
                      /\ bt.calls = <<>>
                      /\ bt.records = <<>>
                      /\ bt.noteRecords = <<>>

\* a selection that is not blank and has no line of three fields was converted
C14_Witness ==
    \E b \in Batches :
        /\ batch[b].pc = "returned"
        /\ trim(batch[b].data) # <<>>
        /\ parseTSV(batch[b].data) = <<>>

(***************************************************************************)
(* The result note (SpecNote): a bounded batch is converted, rendered by   *)
(* generateMarkdownTable and generateTSVData with the statistics block of  *)
(* createResultNote, and the copied TSV is pasted back into the parser.    *)
(***************************************************************************)
MaxRows == 2            \* lines of the data a note is made from

CR == 13                \* '\r'
PIPE == 124             \* '|'
BACKSLASH == 92         \* '\\'

\* text.replace(/[...]/g, to) for a class of single code units
RECURSIVE replaceAll(_, _, _)
replaceAll(s, from, to) ==
    IF s = <<>> THEN <<>>
    ELSE (IF Head(s) \in from THEN to ELSE <<Head(s)>>) \o replaceAll(Tail(s), from, to)

\* '학번\t성명\t학생활동기록\t교사관찰기록\t글자 수\t바이트 수\n'
TSV_HEADER ==
    <<54617, 48264, TAB, 49457, 47749, TAB,
      54617, 49373, 54876, 46041, 44592, 47197, TAB,
      44368, 49324, 44288, 52272, 44592, 47197, TAB,
      44544, 51088, SPACE, 49688, TAB, 48148, 51060, 53944, SPACE, 49688, LF>>

\* '| 학번 | 성명 | 학생활동기록 | 교사관찰기록 | 글자 수 | 바이트 수 |\n'
TABLE_HEADER ==
    <<PIPE, SPACE, 54617, 48264, SPACE, PIPE, SPACE, 49457, 47749, SPACE,
      PIPE, SPACE, 54617, 49373, 54876, 46041, 44592, 47197, SPACE,
      PIPE, SPACE, 44368, 49324, 44288, 52272, 44592, 47197, SPACE,
      PIPE, SPACE, 44544, 51088, SPACE, 49688, SPACE,
      PIPE, SPACE, 48148, 51060, 53944, SPACE, 49688, SPACE, PIPE, LF>>

Dashes(n) == [k \in 1..n |-> 45]

\* '|------|------|-------------|-------------|---------|----------|\n'
TABLE_SEPARATOR ==
    <<PIPE>> \o Dashes(6) \o <<PIPE>> \o Dashes(6) \o <<PIPE>> \o Dashes(13)
        \o <<PIPE>> \o Dashes(13) \o <<PIPE>> \o Dashes(9) \o <<PIPE>>
        \o Dashes(10) \o <<PIPE, LF>>

\* .replace(/\|/g, '\\|').replace(/\n/g, ' ')
escapedCell(cellText) ==
    replaceAll(replaceAll(cellText, {PIPE}, <<BACKSLASH, PIPE>>), {LF}, <<SPACE>>)

\* one row of the table, as the template literal writes it
tableRow(record) ==
    <<PIPE, SPACE>> \o record.studentId
        \o <<SPACE, PIPE, SPACE>> \o record.studentName
        \o <<SPACE, PIPE, SPACE>> \o escapedCell(record.activityContent)
        \o <<SPACE, PIPE, SPACE>> \o escapedCell(record.observation)
        \o <<SPACE, PIPE, SPACE>> \o decimal(record.charCount)
        \o <<SPACE, PIPE, SPACE>> \o decimal(record.byteCount)
        \o <<SPACE, PIPE, LF>>

RECURSIVE tableRows(_)
tableRows(records) ==
    IF records = <<>> THEN <<>> ELSE tableRow(Head(records)) \o tableRows(Tail(records))

generateMarkdownTable(records) == TABLE_HEADER \o TABLE_SEPARATOR \o tableRows(records)

\* a faulty variant of cleanCell: the text is written as it is
cleanCellKept(cellText) == cellText

\* .replace(/[\t\n\r]/g, ' ')
cleanCell(cellText) == replaceAll(cellText, {TAB, LF, CR}, <<SPACE>>)

\* one line of the TSV data, as the template literal writes it
tsvLine(record) ==
    record.studentId \o <<TAB>> \o record.studentName
        \o <<TAB>> \o cleanCell(record.activityContent)
        \o <<TAB>> \o cleanCell(record.observation)
        \o <<TAB>> \o decimal(record.charCount)
        \o <<TAB>> \o decimal(record.byteCount) \o <<LF>>

RECURSIVE tsvLines(_)
tsvLines(records) ==
    IF records = <<>> THEN <<>> ELSE tsvLine(Head(records)) \o tsvLines(Tail(records))

generateTSVData(records) == TSV_HEADER \o tsvLines(records)

\* records.reduce((sum, r) => sum + r.charCount, 0), for either count
RECURSIVE sumOf(_, _)
sumOf(records, field) ==
    IF records = <<>> THEN 0 ELSE Head(records)[field] + sumOf(Tail(records), field)

\* a faulty variant of roundedMean: the fraction is cut off
roundedMeanTruncating(sum, n) ==
    IF n = 0 THEN "NaN" ELSE sum \div n

\* Math.round(sum / n) for sum >= 0: floor(sum / n + 1/2), and NaN for 0 / 0.
\* The quotient of two small integers is at least 1/(2n) away from any
\* other half, so rounding it to a double does not change the result.
roundedMean(sum, n) ==
    IF n = 0 THEN "NaN" ELSE (2 * sum + n) \div (2 * n)

\* the numbers of the note: the total of the head and of the statistics
\* block, and the two means
noteStatistics(records) ==
    [total |-> Len(records),
     meanChars |-> roundedMean(sumOf(records, "charCount"), Len(records)),
     meanBytes |-> roundedMean(sumOf(records, "byteCount"), Len(records))]

\* the record the loop of processConversion pushes for a settled call
convertedRecord(activity, outcome) ==
    IF outcome.ok THEN successRecord(activity, outcome.value)
    ELSE failureRecord(activity, outcome)

\* the lines the data of a note is made of: a plain row, '|' and '\r' in
\* the activity, '|' in the name, '\r' in the student id, an empty student
\* id with a fourth field
NoteLineShapes ==
    { <<49, TAB, 65, TAB, 120>>,
      <<50, TAB, 66, TAB, 120, PIPE, CR, 121>>,
      <<51, TAB, 65, PIPE, 66, TAB, 120>>,
      <<52, CR, 53, TAB, 68, TAB, 120>>,
      <<TAB, 69, TAB, 120, TAB, 121>> }

NoteData ==
    { join(ls, <<LF>>) : ls \in UNION { [1..n -> NoteLineShapes] : n \in 0..MaxRows } }

\* what the generation calls of a note settle with: "가", "a|\n\r\tb", a 204
NoteResponses ==
    { ContentResponse(<<44032>>),
      ContentResponse(<<97, PIPE, LF, CR, TAB, 98>>),
      StatusResponse(204) }

\* processConversion from its call to the records handed to createResultNote
ConvertBatch(responses) ==
    /\ doc.stage = "pasted"
    /\ LET activities == parseTSV(doc.data)
       IN  /\ Len(activities) > 0
           /\ Len(responses) = Len(activities)
           /\ LET outcomes == [k \in 1..Len(activities) |->
                                 callOutcome(generationCall(settings, activities[k],
                                                            settings.targetCharCount),
                                             responses[k])]
              IN  doc' = [stage |-> "batch", data |-> doc.data,
                          failed |-> [k \in 1..Len(activities) |-> ~outcomes[k].ok],
                          records |-> [k \in 1..Len(activities) |->
                                         convertedRecord(activities[k], outcomes[k])]]
    /\ UNCHANGED <<settings, batch, text, measured, estimate, vault>>

\* createResultNote: what the note holds
CreateNote ==
    /\ doc.stage = "batch"
    /\ doc' = [stage |-> "note", data |-> doc.data, failed |-> doc.failed,
               records |-> doc.records,
               tsv |-> generateTSVData(doc.records),
               table |-> generateMarkdownTable(doc.records),
               stats |-> noteStatistics(doc.records)]
    /\ UNCHANGED <<settings, batch, text, measured, estimate, vault>>

\* the copied TSV data is pasted into the input modal and parsed
PasteBack ==
    /\ doc.stage = "note"
    /\ doc' = [stage |-> "reparsed", data |-> doc.data, failed |-> doc.failed,
               records |-> doc.records, tsv |-> doc.tsv, table |-> doc.table,
               stats |-> doc.stats, reparsed |-> parseTSV(doc.tsv)]
    /\ UNCHANGED <<settings, batch, text, measured, estimate, vault>>

InitNote ==
    /\ settings = [DEFAULT_SETTINGS EXCEPT !.apiKey = "sk-key"]
    /\ batch = [b \in Batches |-> IdleBatch]
    /\ text = <<>>
    /\ measured = NotMeasured
    /\ estimate = NoEstimate
    /\ doc \in { [stage |-> "pasted", data |-> d] : d \in NoteData }
    /\ vault = EmptyVault

NextNote ==
    \/ \E responses \in UNION { [1..n -> NoteResponses] : n \in 1..MaxRows } :
          ConvertBatch(responses)
    \/ CreateNote
    \/ PasteBack

SpecNote == InitNote /\ [][NextNote]_vars

(***************************************************************************)
(* Properties of the result note (checked under SpecNote).                 *)
(***************************************************************************)
\* the (studentId, studentName) pairs of a sequence of records
Pairs(records) ==
    [k \in 1..Len(records) |-> <<records[k].studentId, records[k].studentName>>]

\* "학번" and "성명", the first two cells of the TSV header line
HeaderPair == << <<54617, 48264>>, <<49457, 47749>> >>

\* C15 as stated: parsing the TSV rendering of a batch of records gives the
\* same (studentId, studentName) pairs in the same order, none extra, none
\* missing.
C15_RoundTripSamePairs ==
    doc.stage = "reparsed" => Pairs(doc.reparsed) = Pairs(doc.records)

\* C15, amended: parsing the TSV rendering of a batch gives one entry for
\* the header line, ("학번", "성명"), followed by the (studentId,
\* studentName) pairs of the batch in the same order, none extra, none
\* missing.
C15_RoundTripAfterHeader ==
    doc.stage = "reparsed" =>
        Pairs(doc.reparsed) = <<HeaderPair>> \o Pairs(doc.records)

\* two rows were rendered and parsed back, one of them with a generated
\* text that holds a tab and line breaks
C15_Witness ==
    /\ doc.stage = "reparsed"
    /\ Len(doc.records) = 2
    /\ \E k \in 1..2 : \E i \in 1..Len(doc.records[k].observation) :
          doc.records[k].observation[i] \in {TAB, LF, CR}
    /\ Len(doc.reparsed) = 3

\* the '|' of a table line that no backslash escapes: the column delimiters
UnescapedPipes(line) ==
    { i \in 1..Len(line) : line[i] = PIPE /\ (i = 1 \/ line[i - 1] # BACKSLASH) }

Columns(line) == Cardinality(UnescapedPipes(line)) - 1

\* no newline is left in the cell and every '|' of it follows a backslash
CellIsSafe(cell) ==
    \A i \in 1..Len(cell) :
        /\ cell[i] # LF
        /\ cell[i] = PIPE => (i > 1 /\ cell[i - 1] = BACKSLASH)

\* C16: the table is two header lines followed by one line per record, in
\* order; no newline remains in the rendered activity and observation
\* cells and every '|' in them is escaped, so that each data row has
\* exactly six columns.
C16_TableHasSixColumns ==
    doc.stage \in {"note", "reparsed"} =>
        LET lines == split(doc.table, LF)
            n == Len(doc.records)
        IN  /\ Len(lines) = n + 3
            /\ lines[1] \o <<LF>> = TABLE_HEADER
            /\ lines[2] \o <<LF>> = TABLE_SEPARATOR
            /\ lines[n + 3] = <<>>
            /\ \A k \in 1..n :
                  /\ CellIsSafe(escapedCell(doc.records[k].activityContent))
                  /\ CellIsSafe(escapedCell(doc.records[k].observation))
                  /\ lines[k + 2] \o <<LF>> = tableRow(doc.records[k])
                  /\ Columns(lines[k + 2]) = 6

\* the code units generateTSVData replaces: a tab or a line break
IsTabOrLineBreak(c) == c \in {TAB, LF, CR}

HasTabOrLineBreak(field) == \E i \in 1..Len(field) : IsTabOrLineBreak(field[i])

\* C17: the TSV data is one header line followed by one line per record,
\* in order, each of exactly six tab-separated columns; tab, newline and
\* carriage return in the activity and observation texts are replaced by a
\* space, and for records whose studentId and studentName come from
\* parseTSV no field brings in a tab or a line break.
C17_TsvHasSixColumns ==
    doc.stage \in {"note", "reparsed"} =>
        LET lines == split(doc.tsv, LF)
            n == Len(doc.records)
        IN  /\ Len(lines) = n + 2
            /\ lines[1] \o <<LF>> = TSV_HEADER
            /\ lines[n + 2] = <<>>
            /\ \A k \in 1..(n + 1) : Len(split(lines[k], TAB)) = 6
            /\ \A k \in 1..n :
                  /\ lines[k + 1] \o <<LF>> = tsvLine(doc.records[k])
                  /\ ~HasTabOrLineBreak(cleanCell(doc.records[k].activityContent))
                  /\ ~HasTabOrLineBreak(cleanCell(doc.records[k].observation))
                  /\ \A f \in 1..6 : ~HasTabOrLineBreak(split(lines[k + 1], TAB)[f])

RECURSIVE SumSeq(_)
SumSeq(ns) == IF ns = <<>> THEN 0 ELSE Head(ns) + SumSeq(Tail(ns))

\* m is sum / n rounded as Math.round does: m - 1/2 <= sum / n < m + 1/2
IsRounded(m, sum, n) == 2 * n * m <= 2 * sum + n /\ 2 * sum + n < 2 * n * (m + 1)

\* the counts of the records of the note, and those of the successful ones
AllCounts(field) == [k \in 1..Len(doc.records) |-> doc.records[k][field]]
SuccessCounts(field) ==
    [k \in 1..Len(doc.records) |-> IF doc.failed[k] THEN 0 ELSE doc.records[k][field]]
Successes == { k \in 1..Len(doc.records) : ~doc.failed[k] }

MeanIsAsClaimed(mean, field) ==
    LET n == Len(doc.records)
        nS == Cardinality(Successes)
        sum == SumSeq(AllCounts(field))
        sumS == SumSeq(SuccessCounts(field))
    IN  /\ IsRounded(mean, sum, n)
        /\ sum = sumS
        /\ nS > 0 =>
              /\ sum * nS <= sumS * n
              /\ \A mS \in 0..sumS : IsRounded(mS, sumS, nS) => mean <= mS

\* C18: the statistics show the total N with the failed records counted,
\* the mean character count round(sum of charCount / N) and the mean byte
\* count round(sum of byteCount / N); failed records enter with 0, so the
\* mean shown is never above the mean over the successful records.
C18_MeansOverAllRecords ==
    doc.stage \in {"note", "reparsed"} =>
        /\ doc.stats.total = Len(doc.records)
        /\ \A k \in 1..Len(doc.records) :
              doc.failed[k] => doc.records[k].charCount = 0 /\ doc.records[k].byteCount = 0
        /\ MeanIsAsClaimed(doc.stats.meanChars, "charCount")
        /\ MeanIsAsClaimed(doc.stats.meanBytes, "byteCount")

\* a note of one failed and one successful record whose mean falls on a
\* half: (1 + 0) / 2 is shown as 1, (3 + 0) / 2 as 2
C18_Witness ==
    /\ doc.stage = "note"
    /\ doc.stats.total = 2
    /\ Cardinality(Successes) = 1
    /\ doc.stats.meanChars = 1
    /\ doc.stats.meanBytes = 2

(***************************************************************************)
(* Failure of the result note (checked under Spec).                        *)
(***************************************************************************)
\* C19: when createResultNote fails, processConversion neither catches the
\* failure nor tries again: it ends rejected, with no completion notice
\* for that batch, and does nothing further.
C19_WriteFailurePropagates ==
    [][\A b \in Batches :
          /\ (batch[b].pc = "writing" /\ batch'[b].pc = "failed") =>
                /\ batch'[b].notice = NoNotice
                /\ batch'[b] = [batch[b] EXCEPT !.pc = "failed"]
          /\ batch[b].pc = "failed" => batch'[b] = batch[b]]_vars

\* the note of a batch with records could not be created
C19_Witness ==
    \E b \in Batches :
        /\ batch[b].pc = "failed"
        /\ Len(batch[b].noteRecords) > 0
        /\ batch[b].notice = NoNotice

(***************************************************************************)
(* The settings tab edited while a batch runs (SpecSettings): one          *)
(* invocation of the selection command, and the controls of the tab.       *)
(***************************************************************************)
MaxModels == 2          \* options of the model dropdown that get chosen

MODEL_OPTIONS ==
    [openai |-> <<"gpt-5", "gpt-5-mini", "gpt-5-nano", "gpt-4o", "gpt-4o-mini",
                  "gpt-4-turbo", "gpt-4", "gpt-3.5-turbo">>,
     claude |-> <<"claude-sonnet-4-5-20250929", "claude-opus-4-1-20250805",
                  "claude-opus-4-20250514", "claude-sonnet-4-20250514",
                  "claude-haiku-4-5-20251001", "claude-3-7-sonnet-20250219",
                  "claude-3-5-sonnet-20241022", "claude-3-5-haiku-20241022",
                  "claude-3-opus-20240229", "claude-3-haiku-20240307">>,
     gemini |-> <<"gemini-2.5-flash", "gemini-2.5-flash-lite", "gemini-2.0-flash",
                  "gemini-2.0-flash-preview-image-generation", "gemini-1.5-pro",
                  "gemini-1.5-flash", "gemini-1.5-flash-8b">>,
     grok   |-> <<"grok-4-0709", "grok-4-1-fast", "grok-4-1-fast-non-reasoning",
                  "grok-3", "grok-3-mini", "grok-code-fast-1",
                  "grok-2-vision-1212", "grok-2-image-1212">>]

\* display(): a modelId that is not among the options of the provider is
\* replaced by the provider's default
displayed(s) ==
    LET models == MODEL_OPTIONS[s.apiProvider]
    IN  IF \E k \in 1..Len(models) : models[k] = s.modelId
        THEN s
        ELSE [s EXCEPT !.modelId = DEFAULT_MODELS[s.apiProvider]]

\* the settings tab is opened
SettingsTabDisplayed ==
    /\ settings' = displayed(settings)
    /\ UNCHANGED <<batch, text, measured, estimate, doc, vault>>

\* a faulty variant of ProviderChanged: the model is neither reset nor
\* looked up among the options of the new provider
ProviderChangedKeepsModel(value) ==
    /\ displayed(settings) = settings
    /\ settings' = [settings EXCEPT !.apiProvider = value]
    /\ UNCHANGED <<batch, text, measured, estimate, doc, vault>>

\* onChange of the provider dropdown, with the display() it ends with
ProviderChanged(value) ==
    /\ displayed(settings) = settings
    /\ settings' = displayed([settings EXCEPT !.apiProvider = value,
                                              !.modelId = DEFAULT_MODELS[value]])
    /\ UNCHANGED <<batch, text, measured, estimate, doc, vault>>

\* onChange of the API key field
ApiKeyChanged(value) ==
    /\ displayed(settings) = settings
    /\ settings' = [settings EXCEPT !.apiKey = value]
    /\ UNCHANGED <<batch, text, measured, estimate, doc, vault>>

\* onChange of the model dropdown
ModelChanged(value) ==
    /\ displayed(settings) = settings
    /\ \E k \in 1..Len(MODEL_OPTIONS[settings.apiProvider]) :
          MODEL_OPTIONS[settings.apiProvider][k] = value
    /\ settings' = [settings EXCEPT !.modelId = value]
    /\ UNCHANGED <<batch, text, measured, estimate, doc, vault>>

ApiKeyInputs == {"", "sk-key"}

ModelInputs == { MODEL_OPTIONS[settings.apiProvider][k] : k \in 1..MaxModels }

InitSettings == Init

NextSettings ==
    \/ \E selection \in DataInputs : ConvertFromSelection(1, selection)
    \/ \E resp \in Responses : GenerationSucceeds(1, resp)
    \/ \E resp \in Responses : GenerationFails(1, resp)
    \/ DelayElapsed(1)
    \/ ResultNoteCreated(1)
    \/ SettingsTabDisplayed
    \/ \E value \in Providers : ProviderChanged(value)
    \/ \E value \in ApiKeyInputs : ApiKeyChanged(value)
    \/ \E value \in ModelInputs : ModelChanged(value)

SpecSettings == InitSettings /\ [][NextSettings]_vars

\* C20: every generation call of a batch is made with the provider, the
\* API key and the model that were in effect when the batch started (those
\* of its first call), whatever is changed in the settings meanwhile.
C20_ConfigurationFixedAtStart ==
    \A b \in Batches :
        \A k \in 1..Len(batch[b].calls) :
            /\ batch[b].calls[k].fn = batch[b].calls[1].fn
            /\ batch[b].calls[k].apiKey = batch[b].calls[1].apiKey
            /\ batch[b].calls[k].modelId = batch[b].calls[1].modelId

(***************************************************************************)
(* Progress reports (checked under Spec).                                  *)
(***************************************************************************)
\* C21: the progress report for record i (current index i, total N, name of
\* record i) is made after record i has been processed, that is after its
\* generation call has returned or failed; the report with current = total,
\* which shows 'conversion complete', is made only after the last call has
\* finished.
C21_ReportAfterProcessing ==
    \A b \in Batches :
        LET bt == batch[b]
        IN  /\ bt.progress.currentIndex <= Len(bt.outcomes)
            /\ bt.progress.status = "complete" => Len(bt.outcomes) = Len(bt.activities)

(***************************************************************************)
(* Running to completion (SpecLive): one invocation of a command with      *)
(* every awaited promise settling.  requestUrl settles (with a response,   *)
(* an Error or another thrown value), the 500 ms timer fires, and          *)
(* createResultNote resolves: the case in which it rejects is the subject  *)
(* of C19 and is left out of this Next.                                    *)
(***************************************************************************)
\* besides Responses: the body "가", an Error with the message "timeout"
\* that requestUrl rejects with, and a thrown value that is no Error
LiveResponses ==
    Responses \cup { ContentResponse(<<44032>>),
                     RejectError(<<116, 105, 109, 101, 111, 117, 116>>),
                     RejectOther }

CallSettles ==
    \E resp \in LiveResponses : GenerationSucceeds(1, resp) \/ GenerationFails(1, resp)

NextLive ==
    \/ OpenConversionModal(1)
    \/ \E data \in DataInputs : InputModalSubmit(1, data)
    \/ InputModalCancel(1)
    \/ \E selection \in DataInputs : ConvertFromSelection(1, selection)
    \/ CallSettles
    \/ DelayElapsed(1)
    \/ ResultNoteCreated(1)

\* a pending promise of the batch settles
PromiseSettles == CallSettles \/ DelayElapsed(1) \/ ResultNoteCreated(1)

Fairness == WF_vars(PromiseSettles)

SpecLive == Init /\ [][NextLive]_vars /\ Fairness

\* the batch has started its loop and has not completed yet
Running(bt) == bt.pc \in {"calling", "delay", "writing"}

\* the batch has completed: modal closed, one note with all N records, one
\* completion notice whose counts add up to N
Completed(bt) ==
    /\ bt.pc = "done"
    /\ ~bt.progress.open
    /\ Len(bt.activities) >= 1
    /\ Len(bt.noteRecords) = Len(bt.activities)
    /\ bt.noteRecords = bt.records
    /\ bt.notice.kind \in {"doneAll", "doneWithFailures"}
    /\ bt.notice.succeeded + bt.notice.failed = Len(bt.activities)
    /\ bt.notice.failed = bt.errorCount

\* C22: provided every generation call settles and the write of the result
\* note returns, every started batch of N >= 1 records eventually closes
\* its progress modal, creates one result note holding all N records and
\* then shows one completion notice whose success and failure counts add
\* up to N.
C22_RunsToCompletion ==
    Running(batch[1]) ~> Completed(batch[1])

\* a batch of two records, one of them failed, has completed
C22_Witness ==
    /\ Completed(batch[1])
    /\ Len(batch[1].activities) = 2
    /\ batch[1].notice.failed = 1

(***************************************************************************)
(* Position of a line in the pasted data (checked under SpecParse).        *)
(***************************************************************************)
\* the record the parser contract gives for a line of at least three fields
RecordOfLine(line) ==
    LET fields == Fields(line)
    IN  StudentActivity(trim(fields[1]), trim(fields[2]),
                        trim(join(SubSeq(fields, 3, Len(fields)), <<SPACE>>)))

\* C23: a line that has at least three tab-separated fields, its first or
\* last field possibly empty, is accepted wherever it stands in the input:
\* as the first line, as a middle line and as the last line it gives its
\* record, after the records of the accepted lines before it.
C23_AcceptedAtEveryPosition ==
    doc.stage = "parsed" =>
        LET lines == InputLines(doc.data)
        IN  \A k \in 1..Len(lines) :
                HasThreeFields(lines[k]) =>
                    LET idx == Len(SelectSeq(SubSeq(lines, 1, k), HasThreeFields))
                    IN  /\ idx <= Len(doc.activities)
                        /\ doc.activities[idx] = RecordOfLine(lines[k])

(***************************************************************************)
(* The API key and the entry points (checked under Spec).                  *)
(***************************************************************************)
\* C24: no generation call is made with an empty API key: the modal
\* command, the file-menu item and the selection command all refuse to
\* start a batch while settings.apiKey is empty.
C24_NoCallWithoutApiKey ==
    \A b \in Batches :
        /\ \A k \in 1..Len(batch[b].calls) : batch[b].calls[k].apiKey # ""
        /\ settings.apiKey = "" =>
              batch[b].calls = <<>> /\ batch[b].progress = NewProgressModal

(***************************************************************************)
(* The settings tab on its own (SpecTab): from the default settings, the   *)
(* controls of the tab are changed in any order.                           *)
(***************************************************************************)
\* onChange of the default target character count: parseInt gave num
DefaultTargetChanged(num) ==
    /\ displayed(settings) = settings
    /\ num > 0
    /\ settings' = [settings EXCEPT !.targetCharCount = num]
    /\ UNCHANGED <<batch, text, measured, estimate, doc, vault>>

\* onChange of the output folder field
OutputFolderChanged(value) ==
    /\ displayed(settings) = settings
    /\ settings' = [settings EXCEPT !.outputFolder = value]
    /\ UNCHANGED <<batch, text, measured, estimate, doc, vault>>

\* every model id of every provider
AllModelIds ==
    UNION { { MODEL_OPTIONS[p][k] : k \in 1..Len(MODEL_OPTIONS[p]) } : p \in Providers }

TargetInputs == {300, 500}

OutputFolderInputs == {"", "notes"}

InitTab ==
    /\ settings = DEFAULT_SETTINGS
    /\ batch = [b \in Batches |-> IdleBatch]
    /\ text = <<>>
    /\ measured = NotMeasured
    /\ estimate = NoEstimate
    /\ doc = NoDoc
    /\ vault = EmptyVault

NextTab ==
    \/ SettingsTabDisplayed
    \/ \E value \in Providers : ProviderChanged(value)
    \/ \E value \in AllModelIds : ModelChanged(value)
    \/ \E value \in ApiKeyInputs : ApiKeyChanged(value)
    \/ \E num \in TargetInputs : DefaultTargetChanged(num)
    \/ \E value \in OutputFolderInputs : OutputFolderChanged(value)

SpecTab == InitTab /\ [][NextTab]_vars

\* the model ids the dropdown lists for a provider
OptionsOf(provider) ==
    { MODEL_OPTIONS[provider][k] : k \in 1..Len(MODEL_OPTIONS[provider]) }

\* C25: from the default settings, after any sequence of operations of the
\* settings tab, settings.modelId is one of the model ids MODEL_OPTIONS
\* lists for settings.apiProvider, and a change of the provider sets
\* modelId to the DEFAULT_MODELS entry of the new provider.
C25_ModelBelongsToProvider ==
    /\ [](settings.modelId \in OptionsOf(settings.apiProvider))
    /\ [][settings'.apiProvider # settings.apiProvider =>
             settings'.modelId = DEFAULT_MODELS[settings'.apiProvider]]_vars

\* the provider was changed and another model than its default was chosen
C25_Witness ==
    /\ settings.apiProvider = "grok"
    /\ settings.modelId = "grok-3"

(***************************************************************************)
(* The records handed to createResultNote (checked under Spec).            *)
(***************************************************************************)
\* createResultNote has been called for this batch
NoteRequested(bt) == bt.pc \in {"writing", "done", "failed"}

\* C26: createResultNote is only called with a sequence of at least one
\* record, so that the two means of the statistics are never a division
\* by zero; before the call no records are handed over at all.
C26_NoteHasRecords ==
    \A b \in Batches :
        LET bt == batch[b]
        IN  /\ NoteRequested(bt) =>
                  /\ Len(bt.noteRecords) >= 1
                  /\ noteStatistics(bt.noteRecords).total >= 1
                  /\ noteStatistics(bt.noteRecords).meanChars \in Nat
                  /\ noteStatistics(bt.noteRecords).meanBytes \in Nat
            /\ ~NoteRequested(bt) => bt.noteRecords = <<>>

\* the note of a batch whose records all failed was requested
C26_Witness ==
    \E b \in Batches :
        /\ NoteRequested(batch[b])
        /\ Len(batch[b].noteRecords) = 2
        /\ batch[b].errorCount = 2

(***************************************************************************)
(* The completed-student list (SpecTags): one invocation of a command on   *)
(* rows whose name column is any of the names parseTSV can produce,        *)
(* the empty name of the row "1<TAB><TAB>x" included.                      *)
(***************************************************************************)
MaxStudents == 2

\* "", "A", "김"
StudentNames == { <<>>, <<65>>, <<44608>> }

RECURSIVE rowsOf(_)
\* the pasted rows of the students named names, one line each
rowsOf(names) ==
    IF names = <<>> THEN <<>>
    ELSE Line(<<49>>, Head(names), <<120>>)
           \o (IF Len(names) = 1 THEN <<>> ELSE <<LF>> \o rowsOf(Tail(names)))

NamedData ==
    { rowsOf(names) : names \in UNION { [1..n -> StudentNames] : n \in 1..MaxStudents } }

InitTags == Init

NextTags ==
    \/ OpenConversionModal(1)
    \/ \E data \in NamedData : InputModalSubmit(1, data)
    \/ InputModalCancel(1)
    \/ \E selection \in NamedData : ConvertFromSelection(1, selection)
    \/ \E resp \in Responses : GenerationSucceeds(1, resp)
    \/ \E resp \in Responses : GenerationFails(1, resp)
    \/ DelayElapsed(1)
    \/ ResultNoteCreated(1)
    \/ ResultNoteFails(1)

SpecTags == InitTags /\ [][NextTags]_vars

\* the student names of the first n records, in input order
NamesOf(activities, n) == [k \in 1..n |-> activities[k].studentName]

\* C27: the completed-student list holds the names of the records whose
\* processing has finished, in input order and never more; once the batch
\* has finished (markLastStudentComplete was called) it holds exactly one
\* tag per record.
C27_OneTagPerRecord ==
    \A b \in Batches :
        LET bt == batch[b]
            tags == bt.progress.completed
        IN  /\ Len(tags) <= Len(bt.outcomes)
            /\ tags = NamesOf(bt.activities, Len(tags))
            /\ NoteRequested(bt) => tags = NamesOf(bt.activities, Len(bt.activities))

(***************************************************************************)
(* Result notes in the vault (SpecVault): conversions started from a       *)
(* selection, one after the other or overlapping, while the clock runs.    *)
(* The vault works: vault.create rejects only a path that exists.          *)
(***************************************************************************)
MaxTicks == 2
ClockStep == 30
SECONDS_PER_MINUTE == 60

\* timeStr: toTimeString().slice(0, 5) keeps hours and minutes
timeStr(now) == now \div SECONDS_PER_MINUTE

\* filePath of createResultNote
filePath(s, now) == [folder |-> s.outputFolder, timeStr |-> timeStr(now)]

\* the paths of the files of the vault
Paths == { f.path : f \in vault.files }

\* time passes
ClockAdvances ==
    /\ vault.now < MaxTicks * ClockStep
    /\ vault' = [vault EXCEPT !.now = @ + ClockStep]
    /\ UNCHANGED <<settings, batch, text, measured, estimate, doc>>

\* vault.create resolves: the note exists, the completion Notice
ResultNoteWritten(b) ==
    /\ batch[b].pc = "writing"
    /\ filePath(settings, vault.now) \notin Paths
    /\ batch' = [batch EXCEPT ![b] = noteCreated(@)]
    /\ vault' = [vault EXCEPT !.files =
                    @ \cup { [path |-> filePath(settings, vault.now), by |-> b,
                              records |-> batch[b].noteRecords] }]
    /\ UNCHANGED <<settings, text, measured, estimate, doc>>

\* vault.create rejects, a file of that path exists: nothing catches it
ResultNoteExists(b) ==
    /\ batch[b].pc = "writing"
    /\ filePath(settings, vault.now) \in Paths
    /\ batch' = [batch EXCEPT ![b].pc = "failed"]
    /\ UNCHANGED <<settings, text, measured, estimate, doc, vault>>

\* "1<TAB>A<TAB>x" and "2<TAB>김<TAB>y<LF>1<TAB>A<TAB>z"
Selections ==
    { Line(<<49>>, <<65>>, <<120>>),
      Line(<<50>>, <<44608>>, <<121>>) \o <<LF>> \o Line(<<49>>, <<65>>, <<122>>) }

InitVault == Init

NextVault ==
    \/ \E b \in Batches, selection \in Selections : ConvertFromSelection(b, selection)
    \/ \E b \in Batches, resp \in Responses : GenerationSucceeds(b, resp)
    \/ \E b \in Batches, resp \in Responses : GenerationFails(b, resp)
    \/ \E b \in Batches : DelayElapsed(b)
    \/ \E b \in Batches : ResultNoteWritten(b)
    \/ \E b \in Batches : ResultNoteExists(b)
    \/ ClockAdvances

SpecVault == InitVault /\ [][NextVault]_vars

\* the records of a batch are those of its own activities, in order
OwnRecords(bt) ==
    /\ Len(bt.records) <= Len(bt.activities)
    /\ \A k \in 1..Len(bt.records) :
          /\ bt.records[k].studentId = bt.activities[k].studentId
          /\ bt.records[k].studentName = bt.activities[k].studentName
          /\ bt.records[k].activityContent = bt.activities[k].activityContent

\* createResultNote has settled for this batch
NoteSettled(bt) == bt.pc \in {"done", "failed"}

\* C28: batches do not interfere: the records of each batch are those of its
\* own activities, and each batch whose loop has finished gets a note of its
\* own in the vault, holding its records, whenever the batches finish.
C28_EachBatchGetsItsNote ==
    \A b \in Batches :
        /\ OwnRecords(batch[b])
        /\ NoteSettled(batch[b]) =>
              \E f \in vault.files : f.by = b /\ f.records = batch[b].records

====
